---- MODULE Spec2Model ----
(***************************************************************************)
(* Model of package log (src/log.go): a Logger whose producers hand        *)
(* entries to one background goroutine (listen) over a buffered channel,   *)
(* with level-gated admission under a mutex and a close-then-drain         *)
(* Shutdown.                                                               *)
(*                                                                         *)
(* An entry is identified by its producer and that producer's call number  *)
(* (standing for Message, Filename, Line and Time, which no goroutine      *)
(* changes after createLogEntry) together with its level.  The print and   *)
(* printf variants of a method (Debug/Debugf, ...) differ only in how the  *)
(* message text is built, so one action models both.                       *)
(*                                                                         *)
(* A panic ends the call that raised it (pc = "panicked"); whether the     *)
(* caller recovers is outside the package.  os.Exit ends the process:      *)
(* every action requires proc = "running".                                 *)
(*                                                                         *)
(* Specifications:                                                         *)
(*   Spec         every method from before New, few calls                  *)
(*   SpecQuery    Spec with DebugEnabled/InfoEnabled/WarnEnabled           *)
(*   SpecLoad     producers, listen, Shutdown on a loaded channel          *)
(*   SpecFull     SpecLoad's full channel with a SetLevel caller           *)
(*   SpecShutdown listen and one Shutdown, fair scheduling                 *)
(*   SpecFair     producers and listen without Shutdown, fair scheduling   *)
(*   SpecRender   logEntry.String on bounded messages                      *)
(*   SpecCaller   callerInfo on bounded file paths                         *)
(***************************************************************************)
EXTENDS Integers, Sequences, FiniteSets, TLC

\* ---------------------------------------------------------------- constants

LevelError == 0
LevelWarn == 1
LevelInfo == 2
LevelDebug == 3

\* make(chan logEntry, 10)
Capacity == 10

\* largest value of the uint8 level argument
MaxUint8 == 255

\* model bound: submission calls started after New (Spec)
MaxCalls == 1

\* model bound: submission calls started on top of a loaded channel (SpecLoad)
MaxLoadCalls == 2

\* model bound: SetLevel calls
MaxSets == 1

\* model bound: length of a message handed to String
MaxMsgLen == 3

\* model bound: length of a file path returned by runtime.Caller
MaxPathLen == 4

\* model bound: largest line number returned by runtime.Caller
MaxLine == 2

Levels == LevelError..LevelDebug
Uint8 == 0..MaxUint8

\* the level arguments SetLevel is called with: every level, the first value
\* out of range and the largest uint8 (SetLevel only compares the argument
\* with LevelDebug)
LevelArgs == Levels \cup {LevelDebug + 1, MaxUint8}

Producers == {"p1", "p2"}
NoThread == "none"
SetterThread == "setter"

\* the io.WriteCloser handed to New: nil or a sink
Nil == "nil"
Sink == "sink"

\* the goroutine calling DebugEnabled/InfoEnabled/WarnEnabled
ReaderThread == "reader"
\* the goroutines that never take the mutex
ListenThread == "listen"
ShutdownThread == "shutdown"

NoEntry == [level |-> LevelError, prod |-> NoThread, n |-> 0]
NoCall == [kind |-> "none", level |-> LevelError]
NoPanic == [level |-> 0, max |-> 0]

VARIABLES
    proc,        \* "unconstructed" | "running" | "exited" | "newPanicked"
    newPanic,    \* arguments of the panic message raised by New
    exitCode,    \* argument of os.Exit, -1 while the process runs
    writer,      \* Logger.writer
    minLevel,    \* Logger.minLevel
    chan,        \* Logger.entries: "none" | "open" | "closed"
    entries,     \* buffer of Logger.entries
    mutex,       \* holder of Logger.mutex
    lpc,         \* listen: "notStarted" | "recv" | "write" | "signal" | "exited" | "panicked"
    cur,         \* the entry listen has received and not yet written
    pc,          \* producer position: "idle" | "locked" | "send" | "raise" | "exit" | "panicked"
    call,        \* producer's running call: kind and requested level
    calls,       \* calls started by each producer (numbers its entries)
    budget,      \* calls the model still allows
    spc,         \* SetLevel caller: "idle" | "locked"
    sarg,        \* in-range argument of the running SetLevel
    shpc,        \* Shutdown caller: "idle" | "waitDone" | "closeWriter" | "returned" | "panicked"
    sink,        \* what has been written to the WriteCloser
    sinkClosed,  \* Close has been called on the WriteCloser
    enqueued,    \* history: every entry a send placed in the channel
    admitted,    \* history: entries that passed canLog
    enqAtClose,  \* history: Len(enqueued) when Shutdown closed the channel
    setResult,   \* history: outcome of the last finished SetLevel
    setsLeft,    \* SetLevel calls the model still allows
    panicMsg,    \* history: the value each producer's panic carries
    enabledResult, \* level and result of the last DebugEnabled/InfoEnabled/WarnEnabled
    renderIn,    \* the logEntry handed to String
    renderOut,   \* what String returned
    callerIn,    \* what runtime.Caller(3) returned to callerInfo
    callerOut    \* what callerInfo returned

vars == <<proc, newPanic, exitCode, writer, minLevel, chan, entries, mutex, lpc,
          cur, pc, call, calls, budget, spc, sarg, shpc, sink, sinkClosed,
          enqueued, admitted, enqAtClose, setResult, setsLeft, panicMsg,
          enabledResult, renderIn, renderOut, callerIn, callerOut>>

loggerVars == <<writer, minLevel, chan, entries, mutex>>
listenVars == <<lpc, cur>>
producerVars == <<pc, call, calls, budget, panicMsg>>
setterVars == <<spc, sarg, setResult, setsLeft>>
sinkVars == <<sink, sinkClosed>>
\* what no step of New, listen, Shutdown, SetLevel or a submission touches
otherVars == <<enabledResult, renderIn, renderOut, callerIn, callerOut>>

Range(s) == {s[i] : i \in 1..Len(s)}

NoMsg == [prod |-> NoThread, n |-> 0]
\* the runtime's panic for a send on, or a close of, a closed channel
ClosedChanPanic == [prod |-> "runtime", n |-> 0]

\* no *Enabled method has returned yet
NoQuery == [level |-> LevelError, result |-> FALSE]

\* labelDebug, labelInfo, labelWarn, labelError
Labels == {"DEBUG", "INFO", "WARN", "ERROR"}

\* text is a sequence of characters
SeqsUpTo(S, n) == UNION {[1..m -> S] : m \in 0..n}
MsgChars == {"a", "b", "\n"}
Messages == SeqsUpTo(MsgChars, MaxMsgLen)
PathChars == {"/", "a", "b"}
\* a file path ends with the file's name
Paths == {f \in SeqsUpTo(PathChars, MaxPathLen) : f # <<>> /\ f[Len(f)] # "/"}

\* the logEntry values handed to String; Time, Filename and Line are printed
\* by %v as they are and stand for any value
LogEntries ==
    [Level : Labels, Message : Messages, Filename : {"log.go"}, Line : {1},
     Time : {"time"}]
NoLogEntry ==
    [Level |-> "", Message |-> <<>>, Filename |-> "", Line |-> 0, Time |-> ""]

\* what runtime.Caller(3) returns: a file and a line with ok, or the zero
\* values without
CallerResults ==
    [ok : {TRUE}, file : Paths, line : 1..MaxLine]
        \cup {[ok |-> FALSE, file |-> <<>>, line |-> 0]}
NoCallerResult == [ok |-> FALSE, file |-> <<>>, line |-> 0]
NoCallerInfo == [file |-> <<>>, line |-> -1]

\* ------------------------------------------------------------------ helpers

\* the entry createLogEntry/createLogEntryf builds for p's running call
EntryOf(p) == [level |-> call[p].level, prod |-> p, n |-> calls[p]]

\* entry.Message of p's running call
MessageOf(p) == [prod |-> p, n |-> calls[p]]

\* faulty variants of canLog: a strict comparison, no level comparison, no
\* nil check
canLogStrict(level) == minLevel > level /\ writer # Nil

canLogNoLevel(level) == writer # Nil

canLogNoWriter(level) == minLevel >= level

\* return l.minLevel >= level && l.writer != nil
canLog(level) == minLevel >= level /\ writer # Nil

\* faulty variant of AfterSubmit: Fatal/Fatalf without os.Exit
AfterSubmitNoExit(kind) ==
    CASE kind = "Emit" -> "idle"
      [] kind = "Panic" -> "raise"
      [] kind = "Fatal" -> "idle"

\* faulty variant of AfterSubmit: Panic/Panicf without the panic statement
AfterSubmitNoPanic(kind) ==
    CASE kind = "Emit" -> "idle"
      [] kind = "Panic" -> "idle"
      [] kind = "Fatal" -> "exit"

\* what follows the admission branch of a submission method: Emit methods
\* return, Panic/Panicf reach panic(entry.Message), Fatal/Fatalf os.Exit(1)
AfterSubmit(kind) ==
    CASE kind = "Emit" -> "idle"
      [] kind = "Panic" -> "raise"
      [] kind = "Fatal" -> "exit"

\* the k entries of k Error calls by p1
Preloaded(k) == [i \in 1..k |-> [level |-> LevelError, prod |-> "p1", n |-> i]]

\* --------------------------------------------------------------------- Init

\* the logger's variables before New is called
LoggerStart ==
    /\ proc = "unconstructed"
    /\ newPanic = NoPanic
    /\ exitCode = -1
    /\ writer = Nil
    /\ minLevel = LevelError
    /\ chan = "none"
    /\ entries = <<>>
    /\ mutex = NoThread
    /\ lpc = "notStarted"
    /\ cur = NoEntry
    /\ pc = [p \in Producers |-> "idle"]
    /\ call = [p \in Producers |-> NoCall]
    /\ calls = [p \in Producers |-> 0]
    /\ budget = MaxCalls
    /\ spc = "idle"
    /\ sarg = LevelError
    /\ shpc = "idle"
    /\ sink = <<>>
    /\ sinkClosed = FALSE
    /\ enqueued = <<>>
    /\ admitted = {}
    /\ enqAtClose = 0
    /\ setResult = "none"
    /\ setsLeft = MaxSets
    /\ panicMsg = [p \in Producers |-> NoMsg]

\* no *Enabled method has been called
NoQueryYet == enabledResult = NoQuery

\* String has not been called
NoRender == renderIn = NoLogEntry /\ renderOut = <<>>

\* callerInfo has not been called
NoCaller == callerIn = NoCallerResult /\ callerOut = NoCallerInfo

\* before New is called
InitStart == LoggerStart /\ NoQueryYet /\ NoRender /\ NoCaller

\* after New(w, LevelDebug) and k Error calls by p1 that returned before
\* listen was scheduled (the steps New, then k times Emit, CanLogReturn, Send
\* from InitStart): the channel holds the k entries, nothing is written;
\* sets is the number of SetLevel calls still to come.  With a nil writer no
\* call is admitted, so the channel is empty.
Loaded(w, k, sets) ==
    /\ proc = "running"
    /\ newPanic = NoPanic
    /\ exitCode = -1
    /\ writer = w
    /\ minLevel = LevelDebug
    /\ chan = "open"
    /\ entries = Preloaded(k)
    /\ mutex = NoThread
    /\ lpc = "recv"
    /\ cur = NoEntry
    /\ pc = [p \in Producers |-> "idle"]
    /\ call = [p \in Producers |-> NoCall]
    /\ calls = [p \in Producers |-> IF p = "p1" THEN k ELSE 0]
    /\ budget = MaxLoadCalls
    /\ spc = "idle"
    /\ sarg = LevelError
    /\ shpc = "idle"
    /\ sink = <<>>
    /\ sinkClosed = FALSE
    /\ enqueued = Preloaded(k)
    /\ admitted = Range(Preloaded(k))
    /\ enqAtClose = 0
    /\ setResult = "none"
    /\ setsLeft = sets
    /\ panicMsg = [p \in Producers |-> NoMsg]
    /\ NoQueryYet /\ NoRender /\ NoCaller

\* every fill level of the channel, from empty to full, is a start state, and
\* so is the logger with a nil writer.  No SetLevel caller takes part.
InitLoaded ==
    \/ \E k \in 0..Capacity : Loaded(Sink, k, 0)
    \/ Loaded(Nil, 0, 0)

Init == InitStart

\* ---------------------------------------------------------------------- New

\* faulty variant of New: no range check of the level
NewUnchecked(w, l) ==
    /\ proc = "unconstructed"
    /\ proc' = "running"
    /\ writer' = w
    /\ minLevel' = l
    /\ chan' = "open"
    /\ entries' = <<>>
    /\ lpc' = "recv"
    /\ UNCHANGED <<newPanic, mutex, exitCode, cur, producerVars, setterVars,
                   shpc, sinkVars, enqueued, admitted, enqAtClose>>
    /\ UNCHANGED otherVars

New(w, l) ==
    /\ proc = "unconstructed"
    /\ IF l > LevelDebug
       THEN /\ proc' = "newPanicked"
            /\ newPanic' = [level |-> l, max |-> LevelDebug]
            /\ UNCHANGED <<loggerVars, lpc>>
       ELSE /\ proc' = "running"
            /\ writer' = w
            /\ minLevel' = l
            /\ chan' = "open"
            /\ entries' = <<>>
            /\ lpc' = "recv"
            /\ UNCHANGED <<newPanic, mutex>>
    /\ UNCHANGED <<exitCode, cur, producerVars, setterVars, shpc, sinkVars,
                   enqueued, admitted, enqAtClose>>
    /\ UNCHANGED otherVars

\* ------------------------------------------------------------------- listen

\* faulty variant of ListenRecv: on a closed and empty channel it goes on
\* receiving instead of signalling done
ListenRecvNoSignal ==
    /\ proc = "running"
    /\ lpc = "recv"
    /\ IF entries # <<>>
       THEN /\ cur' = Head(entries)
            /\ entries' = Tail(entries)
            /\ lpc' = "write"
       ELSE /\ chan = "closed"
            /\ lpc' = "recv"
            /\ UNCHANGED <<cur, entries>>
    /\ UNCHANGED <<proc, newPanic, exitCode, writer, minLevel, chan, mutex,
                   producerVars, setterVars, shpc, sinkVars, enqueued, admitted,
                   enqAtClose>>
    /\ UNCHANGED otherVars

\* faulty variant of ListenRecv: a closed channel ends the loop although
\* entries are still buffered
ListenRecvSignalEarly ==
    /\ proc = "running"
    /\ lpc = "recv"
    /\ IF chan = "closed"
       THEN /\ lpc' = "signal"
            /\ UNCHANGED <<cur, entries>>
       ELSE /\ entries # <<>>
            /\ cur' = Head(entries)
            /\ entries' = Tail(entries)
            /\ lpc' = "write"
    /\ UNCHANGED <<proc, newPanic, exitCode, writer, minLevel, chan, mutex,
                   producerVars, setterVars, shpc, sinkVars, enqueued, admitted,
                   enqAtClose>>
    /\ UNCHANGED otherVars

\* faulty variant of ListenRecv: takes the newest entry of the buffer
ListenRecvLast ==
    /\ proc = "running"
    /\ lpc = "recv"
    /\ IF entries # <<>>
       THEN /\ cur' = entries[Len(entries)]
            /\ entries' = SubSeq(entries, 1, Len(entries) - 1)
            /\ lpc' = "write"
       ELSE /\ chan = "closed"
            /\ lpc' = "signal"
            /\ UNCHANGED <<cur, entries>>
    /\ UNCHANGED <<proc, newPanic, exitCode, writer, minLevel, chan, mutex,
                   producerVars, setterVars, shpc, sinkVars, enqueued, admitted,
                   enqAtClose>>
    /\ UNCHANGED otherVars

\* entry, more := <-l.entries
ListenRecv ==
    /\ proc = "running"
    /\ lpc = "recv"
    /\ IF entries # <<>>
       THEN /\ cur' = Head(entries)
            /\ entries' = Tail(entries)
            /\ lpc' = "write"
       ELSE /\ chan = "closed"
            /\ lpc' = "signal"
            /\ UNCHANGED <<cur, entries>>
    /\ UNCHANGED <<proc, newPanic, exitCode, writer, minLevel, chan, mutex,
                   producerVars, setterVars, shpc, sinkVars, enqueued, admitted,
                   enqAtClose>>
    /\ UNCHANGED otherVars

\* faulty variant of ListenWrite: the entry is dropped, not written
ListenWriteDiscard ==
    /\ proc = "running"
    /\ lpc = "write"
    /\ IF writer = Nil
       THEN /\ lpc' = "panicked"
            /\ UNCHANGED <<cur, sink>>
       ELSE /\ sink' = sink
            /\ cur' = NoEntry
            /\ lpc' = "recv"
    /\ UNCHANGED <<proc, newPanic, exitCode, loggerVars, producerVars,
                   setterVars, shpc, sinkClosed, enqueued, admitted, enqAtClose>>
    /\ UNCHANGED otherVars

\* fmt.Fprint(l.writer, entry): a nil writer panics, a closed sink returns an
\* error that listen discards
ListenWrite ==
    /\ proc = "running"
    /\ lpc = "write"
    /\ IF writer = Nil
       THEN /\ lpc' = "panicked"
            /\ UNCHANGED <<cur, sink>>
       ELSE /\ sink' = IF sinkClosed THEN sink ELSE Append(sink, cur)
            /\ cur' = NoEntry
            /\ lpc' = "recv"
    /\ UNCHANGED <<proc, newPanic, exitCode, loggerVars, producerVars,
                   setterVars, shpc, sinkClosed, enqueued, admitted, enqAtClose>>
    /\ UNCHANGED otherVars

\* ----------------------------------------------------------------- Shutdown

\* close(l.entries)
ShutdownClose ==
    /\ proc = "running"
    /\ shpc \in {"idle", "returned"}
    /\ IF chan = "closed"
       THEN /\ shpc' = "panicked"
            /\ UNCHANGED <<chan, enqAtClose>>
       ELSE /\ chan' = "closed"
            /\ enqAtClose' = Len(enqueued)
            /\ shpc' = "waitDone"
    /\ UNCHANGED <<proc, newPanic, exitCode, writer, minLevel, entries, mutex,
                   listenVars, producerVars, setterVars, sinkVars, enqueued,
                   admitted>>
    /\ UNCHANGED otherVars

\* faulty variant of DoneHandoff: Shutdown goes on without waiting for listen
DoneHandoffNoWait ==
    /\ proc = "running"
    /\ shpc = "waitDone"
    /\ shpc' = "closeWriter"
    /\ UNCHANGED <<proc, newPanic, exitCode, loggerVars, listenVars,
                   producerVars, setterVars, sinkVars, enqueued, admitted,
                   enqAtClose>>
    /\ UNCHANGED otherVars

\* l.done <- true in listen meets <-l.done in Shutdown (unbuffered channel)
DoneHandoff ==
    /\ proc = "running"
    /\ lpc = "signal"
    /\ shpc = "waitDone"
    /\ lpc' = "exited"
    /\ shpc' = "closeWriter"
    /\ UNCHANGED <<proc, newPanic, exitCode, loggerVars, cur, producerVars,
                   setterVars, sinkVars, enqueued, admitted, enqAtClose>>
    /\ UNCHANGED otherVars

\* if l.writer != nil { l.writer.Close() }
ShutdownCloseWriter ==
    /\ proc = "running"
    /\ shpc = "closeWriter"
    /\ sinkClosed' = IF writer # Nil THEN TRUE ELSE sinkClosed
    /\ shpc' = "returned"
    /\ UNCHANGED <<proc, newPanic, exitCode, loggerVars, listenVars,
                   producerVars, setterVars, sink, enqueued, admitted,
                   enqAtClose>>
    /\ UNCHANGED otherVars

\* ----------------------------------------------------------------- SetLevel

\* faulty variant of SetLevel: no range check of the level
SetLevelUnchecked(level) ==
    /\ proc = "running"
    /\ spc = "idle"
    /\ setsLeft > 0
    /\ setsLeft' = setsLeft - 1
    /\ mutex = NoThread
    /\ mutex' = SetterThread
    /\ spc' = "locked"
    /\ sarg' = level
    /\ UNCHANGED <<setResult, proc, newPanic, exitCode, writer, minLevel, chan,
                   entries, listenVars, producerVars, shpc, sinkVars, enqueued,
                   admitted, enqAtClose>>
    /\ UNCHANGED otherVars

\* the range check and, for a level in range, l.mutex.Lock(): all that precedes
\* the Lock is local to the caller
SetLevel(level) ==
    /\ proc = "running"
    /\ spc = "idle"
    /\ setsLeft > 0
    /\ setsLeft' = setsLeft - 1
    /\ IF level > LevelDebug
       THEN /\ setResult' = "ignored"
            /\ UNCHANGED <<spc, sarg, mutex>>
       ELSE /\ mutex = NoThread
            /\ mutex' = SetterThread
            /\ spc' = "locked"
            /\ sarg' = level
            /\ UNCHANGED setResult
    /\ UNCHANGED <<proc, newPanic, exitCode, writer, minLevel, chan, entries,
                   listenVars, producerVars, shpc, sinkVars, enqueued, admitted,
                   enqAtClose>>
    /\ UNCHANGED otherVars

\* l.minLevel = level, then the deferred l.mutex.Unlock()
SetLevelWrite ==
    /\ proc = "running"
    /\ spc = "locked"
    /\ minLevel' = sarg
    /\ mutex' = NoThread
    /\ spc' = "idle"
    /\ sarg' = LevelError
    /\ setResult' = "set"
    /\ UNCHANGED <<setsLeft, proc, newPanic, exitCode, writer, chan, entries, listenVars,
                   producerVars, shpc, sinkVars, enqueued, admitted, enqAtClose>>
    /\ UNCHANGED otherVars

\* ----------------------------------------------------------------- *Enabled

\* return l.minLevel >= level, read without taking the mutex.  A read that
\* runs while SetLevel is between Lock and Unlock races with the write of
\* minLevel and returns the old or the new value.
LevelEnabled(level) ==
    /\ proc = "running"
    /\ \E v \in (IF spc = "locked" THEN {minLevel, sarg} ELSE {minLevel}) :
          enabledResult' = [level |-> level, result |-> v >= level]
    /\ UNCHANGED <<proc, newPanic, exitCode, loggerVars, listenVars,
                   producerVars, setterVars, shpc, sinkVars, enqueued, admitted,
                   enqAtClose, renderIn, renderOut, callerIn, callerOut>>

DebugEnabled == LevelEnabled(LevelDebug)

InfoEnabled == LevelEnabled(LevelInfo)

WarnEnabled == LevelEnabled(LevelWarn)

\* --------------------------------------------------------------- submission

\* entry into a submission method up to canLog's l.mutex.Lock(): all that
\* precedes the Lock (for Panic/Panicf the construction of the entry) is local
\* to the caller
StartCall(p, kind, level) ==
    /\ proc = "running"
    /\ pc[p] = "idle"
    /\ budget > 0
    /\ mutex = NoThread
    /\ mutex' = p
    /\ pc' = [pc EXCEPT ![p] = "locked"]
    /\ call' = [call EXCEPT ![p] = [kind |-> kind, level |-> level]]
    /\ calls' = [calls EXCEPT ![p] = @ + 1]
    /\ budget' = budget - 1
    /\ UNCHANGED <<proc, newPanic, exitCode, writer, minLevel, chan, entries,
                   listenVars, panicMsg, setterVars, shpc, sinkVars, enqueued,
                   admitted, enqAtClose>>
    /\ UNCHANGED otherVars

\* Debug/Debugf, Info/Infof, Warn/Warnf, Error/Errorf
Emit(p, level) == StartCall(p, "Emit", level)

\* Panic/Panicf
Panic(p) == StartCall(p, "Panic", LevelError)

\* Fatal/Fatalf
Fatal(p) == StartCall(p, "Fatal", LevelError)

\* faulty variant of CanLogReturn: an admitted call keeps the mutex while it
\* goes on to the channel send
CanLogReturnKeepsLock(p) ==
    /\ proc = "running"
    /\ pc[p] = "locked"
    /\ IF canLog(call[p].level)
       THEN /\ pc' = [pc EXCEPT ![p] = "send"]
            /\ admitted' = admitted \cup {EntryOf(p)}
            /\ UNCHANGED <<call, mutex>>
       ELSE /\ pc' = [pc EXCEPT ![p] = AfterSubmit(call[p].kind)]
            /\ call' = [call EXCEPT ![p] = IF call[p].kind = "Emit" THEN NoCall ELSE @]
            /\ mutex' = NoThread
            /\ UNCHANGED admitted
    /\ UNCHANGED <<proc, newPanic, exitCode, writer, minLevel, chan, entries,
                   listenVars, calls, budget, panicMsg, setterVars, shpc,
                   sinkVars, enqueued, enqAtClose>>
    /\ UNCHANGED otherVars

\* canLog: the guarded read, the deferred Unlock, and the caller's branch on
\* the result
CanLogReturn(p) ==
    /\ proc = "running"
    /\ pc[p] = "locked"
    /\ mutex' = NoThread
    /\ IF canLog(call[p].level)
       THEN /\ pc' = [pc EXCEPT ![p] = "send"]
            /\ admitted' = admitted \cup {EntryOf(p)}
            /\ UNCHANGED call
       ELSE /\ pc' = [pc EXCEPT ![p] = AfterSubmit(call[p].kind)]
            /\ call' = [call EXCEPT ![p] = IF call[p].kind = "Emit" THEN NoCall ELSE @]
            /\ UNCHANGED admitted
    /\ UNCHANGED <<proc, newPanic, exitCode, writer, minLevel, chan, entries,
                   listenVars, calls, budget, panicMsg, setterVars, shpc,
                   sinkVars, enqueued, enqAtClose>>
    /\ UNCHANGED otherVars

\* faulty variant of Send: the entry is placed in the buffer although the
\* channel is closed
SendIgnoresClose(p) ==
    /\ proc = "running"
    /\ pc[p] = "send"
    /\ Len(entries) < Capacity
    /\ entries' = Append(entries, EntryOf(p))
    /\ enqueued' = Append(enqueued, EntryOf(p))
    /\ pc' = [pc EXCEPT ![p] = AfterSubmit(call[p].kind)]
    /\ call' = [call EXCEPT ![p] = IF call[p].kind = "Emit" THEN NoCall ELSE @]
    /\ UNCHANGED <<proc, newPanic, exitCode, writer, minLevel, chan, mutex,
                   listenVars, calls, budget, panicMsg, setterVars, shpc,
                   sinkVars, admitted, enqAtClose>>
    /\ UNCHANGED otherVars

\* faulty variant of Send: a full buffer drops the entry instead of blocking
SendDropWhenFull(p) ==
    /\ proc = "running"
    /\ pc[p] = "send"
    /\ IF chan = "closed"
       THEN /\ pc' = [pc EXCEPT ![p] = "panicked"]
            /\ panicMsg' = [panicMsg EXCEPT ![p] = ClosedChanPanic]
            /\ UNCHANGED <<entries, enqueued, call>>
       ELSE /\ entries' = IF Len(entries) < Capacity
                          THEN Append(entries, EntryOf(p)) ELSE entries
            /\ enqueued' = IF Len(entries) < Capacity
                           THEN Append(enqueued, EntryOf(p)) ELSE enqueued
            /\ pc' = [pc EXCEPT ![p] = AfterSubmit(call[p].kind)]
            /\ call' = [call EXCEPT ![p] = IF call[p].kind = "Emit" THEN NoCall ELSE @]
            /\ UNCHANGED panicMsg
    /\ UNCHANGED <<proc, newPanic, exitCode, writer, minLevel, chan, mutex,
                   listenVars, calls, budget, setterVars, shpc, sinkVars,
                   admitted, enqAtClose>>
    /\ UNCHANGED otherVars

\* l.entries <- entry: panics on a closed channel, blocks while the buffer is
\* full
Send(p) ==
    /\ proc = "running"
    /\ pc[p] = "send"
    /\ IF chan = "closed"
       THEN /\ pc' = [pc EXCEPT ![p] = "panicked"]
            /\ panicMsg' = [panicMsg EXCEPT ![p] = ClosedChanPanic]
            /\ UNCHANGED <<entries, enqueued, call>>
       ELSE /\ Len(entries) < Capacity
            /\ entries' = Append(entries, EntryOf(p))
            /\ enqueued' = Append(enqueued, EntryOf(p))
            /\ pc' = [pc EXCEPT ![p] = AfterSubmit(call[p].kind)]
            /\ call' = [call EXCEPT ![p] = IF call[p].kind = "Emit" THEN NoCall ELSE @]
            /\ UNCHANGED panicMsg
    /\ UNCHANGED <<proc, newPanic, exitCode, writer, minLevel, chan, mutex,
                   listenVars, calls, budget, setterVars, shpc, sinkVars,
                   admitted, enqAtClose>>
    /\ UNCHANGED otherVars

\* panic(entry.Message)
PanicRaise(p) ==
    /\ proc = "running"
    /\ pc[p] = "raise"
    /\ pc' = [pc EXCEPT ![p] = "panicked"]
    /\ panicMsg' = [panicMsg EXCEPT ![p] = MessageOf(p)]
    /\ UNCHANGED <<proc, newPanic, exitCode, loggerVars, listenVars, call,
                   calls, budget, setterVars, shpc, sinkVars, enqueued, admitted,
                   enqAtClose>>
    /\ UNCHANGED otherVars

\* os.Exit(1)
FatalExit(p) ==
    /\ proc = "running"
    /\ pc[p] = "exit"
    /\ proc' = "exited"
    /\ exitCode' = 1
    /\ UNCHANGED <<newPanic, loggerVars, listenVars, producerVars, setterVars,
                   shpc, sinkVars, enqueued, admitted, enqAtClose>>
    /\ UNCHANGED otherVars

\* ---------------------------------------------------------- logEntry.String

\* the verb %v of a format string
Verb == "%v"

NewLine == "\n"

\* []byte("[%v] [%v:%v] [%v] %v"), cut into its verbs and the text between
BaseFormat == <<"[", Verb, "] [", Verb, ":", Verb, "] [", Verb, "] ", Verb>>

\* fmt.Sprintf with %v verbs only: the format's text is copied and each verb
\* is replaced by the text of the next argument
RECURSIVE Sprintf(_, _)
Sprintf(format, args) ==
    IF format = <<>>
    THEN <<>>
    ELSE IF Head(format) = Verb
         THEN Head(args) \o Sprintf(Tail(format), Tail(args))
         ELSE <<Head(format)>> \o Sprintf(Tail(format), args)

\* faulty variant of String: the end-of-line is appended to every message
StringAlwaysNewline(e) ==
    Sprintf(Append(BaseFormat, NewLine),
            <<<<e.Time>>, <<e.Filename>>, <<ToString(e.Line)>>, <<e.Level>>,
              e.Message>>)

\* func (e logEntry) String() string
String(e) ==
    LET format ==
            IF Len(e.Message) = 0 \/ e.Message[Len(e.Message)] # NewLine
            THEN Append(BaseFormat, NewLine)
            ELSE BaseFormat
    IN  Sprintf(format,
                <<<<e.Time>>, <<e.Filename>>, <<ToString(e.Line)>>, <<e.Level>>,
                  e.Message>>)

\* a call of String on the entry renderIn
CallString ==
    /\ renderIn # NoLogEntry
    /\ renderOut = <<>>
    /\ renderOut' = String(renderIn)
    /\ UNCHANGED <<proc, newPanic, exitCode, loggerVars, listenVars,
                   producerVars, setterVars, shpc, sinkVars, enqueued, admitted,
                   enqAtClose, enabledResult, renderIn, callerIn, callerOut>>

\* String is handed any entry of LogEntries
InitRender ==
    /\ LoggerStart
    /\ NoQueryYet
    /\ NoCaller
    /\ renderIn \in LogEntries
    /\ renderOut = <<>>

NextRender == CallString

SpecRender == InitRender /\ [][NextRender]_vars

\* --------------------------------------------------------------- callerInfo

\* "???.go"
Placeholder == <<"?", "?", "?", ".", "g", "o">>

\* for i := len(file) - 1; i > 0; i-- { if file[i] == '/' { short =
\* file[i+1:]; break } }, from index i on; Go's file[i] is file[i + 1] here
RECURSIVE Shorten(_, _)
Shorten(file, i) ==
    IF i > 0
    THEN IF file[i + 1] = "/"
         THEN SubSeq(file, i + 2, Len(file))
         ELSE Shorten(file, i - 1)
    ELSE file

\* func callerInfo() (file string, line int), on the results c of
\* runtime.Caller(3)
callerInfo(c) ==
    LET file == IF c.ok THEN c.file ELSE Placeholder
        line == IF c.ok THEN c.line ELSE 0
    IN  [file |-> Shorten(file, Len(file) - 1), line |-> line]

\* a call of callerInfo in which runtime.Caller(3) returns callerIn
CallCallerInfo ==
    /\ callerOut = NoCallerInfo
    /\ callerOut' = callerInfo(callerIn)
    /\ UNCHANGED <<proc, newPanic, exitCode, loggerVars, listenVars,
                   producerVars, setterVars, shpc, sinkVars, enqueued, admitted,
                   enqAtClose, enabledResult, renderIn, renderOut, callerIn>>

\* runtime.Caller(3) returns any of CallerResults
InitCaller ==
    /\ LoggerStart
    /\ NoQueryYet
    /\ NoRender
    /\ callerIn \in CallerResults
    /\ callerOut = NoCallerInfo

NextCaller == CallCallerInfo

SpecCaller == InitCaller /\ [][NextCaller]_vars

\* --------------------------------------------------------------------- Next

Next ==
    \/ \E w \in {Nil, Sink}, l \in Uint8 : New(w, l)
    \/ ListenRecv
    \/ ListenWrite
    \/ ShutdownClose
    \/ DoneHandoff
    \/ ShutdownCloseWriter
    \/ \E level \in LevelArgs : SetLevel(level)
    \/ SetLevelWrite
    \/ \E p \in Producers, level \in Levels : Emit(p, level)
    \/ \E p \in Producers : Panic(p)
    \/ \E p \in Producers : Fatal(p)
    \/ \E p \in Producers : CanLogReturn(p)
    \/ \E p \in Producers : Send(p)
    \/ \E p \in Producers : PanicRaise(p)
    \/ \E p \in Producers : FatalExit(p)

Spec == Init /\ [][Next]_vars

\* every method of the logger, the *Enabled queries included
NextQuery ==
    \/ Next
    \/ DebugEnabled
    \/ InfoEnabled
    \/ WarnEnabled

SpecQuery == Init /\ [][NextQuery]_vars

\* producers, listen and Shutdown on a logger whose channel is already loaded;
\* no SetLevel caller
NextLoad ==
    \/ ListenRecv
    \/ ListenWrite
    \/ ShutdownClose
    \/ DoneHandoff
    \/ ShutdownCloseWriter
    \/ \E p \in Producers, level \in Levels : Emit(p, level)
    \/ \E p \in Producers : Panic(p)
    \/ \E p \in Producers : Fatal(p)
    \/ \E p \in Producers : CanLogReturn(p)
    \/ \E p \in Producers : Send(p)
    \/ \E p \in Producers : PanicRaise(p)
    \/ \E p \in Producers : FatalExit(p)

SpecLoad == InitLoaded /\ [][NextLoad]_vars

\* a full channel
InitFull == Loaded(Sink, Capacity, MaxSets)

\* the level arguments of the SetLevel caller on a full channel: one in range,
\* under which Warn, Info and Debug calls are no longer admitted, and one out
\* of range
FullLevelArgs == {LevelError, LevelDebug + 1}

\* producers calling Debug..Errorf, listen, Shutdown and a SetLevel caller on a
\* full channel
NextFull ==
    \/ ListenRecv
    \/ ListenWrite
    \/ ShutdownClose
    \/ DoneHandoff
    \/ ShutdownCloseWriter
    \/ \E level \in FullLevelArgs : SetLevel(level)
    \/ SetLevelWrite
    \/ \E p \in Producers, level \in Levels : Emit(p, level)
    \/ \E p \in Producers : CanLogReturn(p)
    \/ \E p \in Producers : Send(p)

SpecFull == InitFull /\ [][NextFull]_vars

\* one Shutdown call: the first on this logger
ShutdownOnce == shpc = "idle" /\ ShutdownClose

\* listen and a single Shutdown call on a loaded channel, with no submission
\* under way or started
NextShutdown ==
    \/ ListenRecv
    \/ ListenWrite
    \/ ShutdownOnce
    \/ DoneHandoff
    \/ ShutdownCloseWriter

\* the Go scheduler runs every goroutine that is able to run: listen takes
\* its next step, a rendezvous on done with both sides waiting happens, and
\* the Shutdown caller goes on after it
FairShutdown ==
    /\ WF_vars(ListenRecv)
    /\ WF_vars(ListenWrite)
    /\ WF_vars(DoneHandoff)
    /\ WF_vars(ShutdownCloseWriter)

SpecShutdown == InitLoaded /\ [][NextShutdown]_vars /\ FairShutdown

\* producers (no Fatal/Fatalf) and listen on a loaded channel; Shutdown is
\* never called
NextFair ==
    \/ ListenRecv
    \/ ListenWrite
    \/ \E p \in Producers, level \in Levels : Emit(p, level)
    \/ \E p \in Producers : Panic(p)
    \/ \E p \in Producers : CanLogReturn(p)
    \/ \E p \in Producers : Send(p)
    \/ \E p \in Producers : PanicRaise(p)

\* listen takes its next step whenever it can; a producer inside canLog goes
\* on to the Unlock; the runtime serves the senders blocked on the channel in
\* the order they arrived, so a sender that can proceed again and again does
FairProducers ==
    /\ WF_vars(ListenRecv)
    /\ WF_vars(ListenWrite)
    /\ \A p \in Producers : WF_vars(CanLogReturn(p))
    /\ \A p \in Producers : SF_vars(Send(p))

\* the channel empty, one short of full, or full
InitFair == \E k \in {0, Capacity - 1, Capacity} : Loaded(Sink, k, 0)

SpecFair == InitFair /\ [][NextFair]_vars /\ FairProducers

\* ------------------------------------------------------------------- claims

IsPrefix(s, t) == Len(s) <= Len(t) /\ SubSeq(t, 1, Len(s)) = s

\* how many entries of seq are the n-th entry of producer p
CountIn(seq, p, n) ==
    Cardinality({i \in 1..Len(seq) : seq[i].prod = p /\ seq[i].n = n})

\* p's latest submission is past its admission branch (and did not end in the
\* runtime's panic for a send on a closed channel)
SubmissionDone(p) ==
    /\ calls[p] > 0
    /\ \/ pc[p] \in {"idle", "raise", "exit"}
       \/ pc[p] = "panicked" /\ panicMsg[p] # ClosedChanPanic

\* Shutdown was called twice, or a submission ran into a closed channel or is
\* under way while the channel is closed
Misuse ==
    \/ shpc = "panicked"
    \/ \E p \in Producers : panicMsg[p] = ClosedChanPanic
    \/ chan = "closed" /\ \E p \in Producers : pc[p] \in {"locked", "send"}

\* C1: when Shutdown has returned, the sink holds exactly the entries that
\* were enqueued when Shutdown closed the channel and the sink is closed; and
\* whenever the sink is closed, listen has exited with all of them written, so
\* Close came after the last write.
C1_ShutdownDrainsBeforeClose ==
    /\ shpc = "returned" =>
          /\ writer # Nil => sinkClosed
          /\ lpc = "exited"
          /\ Len(enqueued) = enqAtClose
          /\ sink = enqueued
    /\ sinkClosed =>
          /\ lpc = "exited"
          /\ Len(sink) = enqAtClose
          /\ sink = SubSeq(enqueued, 1, enqAtClose)

\* C1 witness: Shutdown returned with more entries written than the channel
\* holds at once.
C1_Witness ==
    /\ shpc = "returned"
    /\ sinkClosed
    /\ Len(sink) > Capacity

\* C2: the sink is always a prefix of the sequence of enqueued entries, and
\* the entries of one producer appear in it in that producer's call order.
C2_OrderPreserved ==
    /\ IsPrefix(sink, enqueued)
    /\ \A i, j \in 1..Len(sink) :
          (i < j /\ sink[i].prod = sink[j].prod) => sink[i].n < sink[j].n

\* C2 witness: more entries written than the capacity, from both producers.
C2_Witness ==
    /\ Len(sink) > Capacity
    /\ \E i \in 1..Len(sink) : sink[i].prod = "p2"
    /\ \E i \in 1..Len(sink) : sink[i].prod = "p1"

\* C3 (as claimed): once the process has ended or the sink is closed, and
\* there was no misuse, every admitted entry is in the sink exactly once.
C3_NoAdmittedEntryLost ==
    ((proc = "exited" \/ sinkClosed) /\ ~Misuse) =>
        \A e \in admitted : CountIn(sink, e.prod, e.n) = 1

\* C4: the step that leaves canLog admits the call exactly when
\* minLevel >= level and the writer is not nil; a finished submission has
\* enqueued exactly one entry if it was admitted and none otherwise.
C4_AdmissionExact ==
    /\ [][\A p \in Producers :
            (pc[p] = "locked" /\ pc'[p] # "locked") =>
                /\ (pc'[p] = "send") <=> (minLevel >= call[p].level /\ writer # Nil)
                /\ (EntryOf(p) \in admitted') <=> (pc'[p] = "send")]_vars
    /\ [](\A p \in Producers :
            SubmissionDone(p) =>
                CountIn(enqueued, p, calls[p]) =
                    IF \E e \in admitted : e.prod = p /\ e.n = calls[p]
                    THEN 1 ELSE 0)

\* C4 witness: a SetLevel has written minLevel = Info and an Info call has
\* returned with its one entry enqueued.
C4_Witness ==
    /\ minLevel = LevelInfo
    /\ setResult = "set"
    /\ \E p \in Producers :
          /\ pc[p] = "idle"
          /\ calls[p] = 1
          /\ enqueued = <<[level |-> LevelInfo, prod |-> p, n |-> 1]>>

\* C5 (as claimed): at the step that enqueues an entry, its level is at most
\* the logger's current minLevel.
C5_EnqueuedWithinCurrentLevel ==
    [][Len(enqueued') > Len(enqueued) =>
          enqueued'[Len(enqueued')].level <= minLevel]_vars

\* C5 (amended): an entry is enqueued only after it passed the admission
\* check, and at the step of that check its level was at most minLevel.
C5_EnqueuedWasAdmitted ==
    /\ [][\A p \in Producers :
            (pc[p] = "locked" /\ pc'[p] = "send") => call[p].level <= minLevel]_vars
    /\ [][admitted' # admitted =>
            \E p \in Producers :
                /\ pc[p] = "locked"
                /\ pc'[p] = "send"
                /\ admitted' = admitted \cup {EntryOf(p)}]_vars
    /\ [][Len(enqueued') > Len(enqueued) =>
            enqueued'[Len(enqueued')] \in admitted]_vars

\* C5 witness: an entry has been enqueued whose level is above the minLevel
\* a later SetLevel wrote.
C5_Witness ==
    /\ setResult = "set"
    /\ \E i \in 1..Len(enqueued) : enqueued[i].level > minLevel

\* C6: on a logger constructed with a nil writer nothing is ever admitted or
\* enqueued, no producer reaches the channel send, listen never holds or
\* writes an entry, and no sink is closed.
C6_AbsentSinkNoOp ==
    (proc \in {"running", "exited"} /\ writer = Nil) =>
        /\ admitted = {}
        /\ enqueued = <<>>
        /\ entries = <<>>
        /\ sink = <<>>
        /\ cur = NoEntry
        /\ lpc \in {"recv", "signal", "exited"}
        /\ \A p \in Producers : pc[p] # "send"
        /\ ~sinkClosed

\* C6 witness: nil writer, a submission and a SetLevel have returned, and
\* Shutdown has returned.
C6_Witness ==
    /\ writer = Nil
    /\ shpc = "returned"
    /\ setResult = "set"
    /\ minLevel = LevelDebug
    /\ \E p \in Producers : pc[p] = "idle" /\ calls[p] = 1

\* C7: SetLevel with a level above LevelDebug returns at once and changes no
\* logger field; with a level in range it takes the mutex and then writes
\* exactly that level to minLevel, changing nothing else of the logger.
C7_SetLevelFrame ==
    [][/\ (\E level \in LevelArgs \ Levels : SetLevel(level)) =>
            /\ spc' = "idle"
            /\ UNCHANGED <<writer, minLevel, chan, entries, mutex, lpc, cur, shpc,
                           sink, sinkClosed, enqueued>>
       /\ \A level \in Levels : SetLevel(level) =>
            /\ spc' = "locked"
            /\ sarg' = level
            /\ UNCHANGED <<writer, minLevel, chan, entries, lpc, cur, shpc, sink,
                           sinkClosed, enqueued>>
       /\ (spc = "locked" /\ spc' = "idle") =>
            /\ sarg \in Levels
            /\ minLevel' = sarg
            /\ UNCHANGED <<writer, chan, entries, lpc, cur, shpc, sink,
                           sinkClosed, enqueued>>]_vars

\* C7 witness: an out-of-range SetLevel has returned while the channel holds
\* an entry.
C7_Witness ==
    /\ setResult = "ignored"
    /\ entries # <<>>

\* C8: a constructed logger's minLevel is one of the four levels; when New
\* panicked, its level was above LevelDebug and neither the channel nor
\* listen exists.
C8_MinLevelInRange ==
    /\ proc \in {"running", "exited"} =>
          /\ minLevel \in Levels
          /\ newPanic = NoPanic
          /\ chan # "none"
    /\ proc = "newPanicked" =>
          /\ newPanic.level > LevelDebug
          /\ newPanic.max = LevelDebug
          /\ chan = "none"
          /\ lpc = "notStarted"
          /\ writer = Nil

\* C8 witness: New was called with the largest 8-bit level and panicked.
C8_Witness ==
    /\ proc = "newPanicked"
    /\ newPanic.level = MaxUint8

\* C9: the channel never holds more than Capacity entries, and a producer at
\* the send leaves it, while the channel is open, only by appending its entry
\* to a buffer that is not full.
C9_BackpressureNotDrop ==
    /\ [](Len(entries) <= Capacity)
    /\ [][\A p \in Producers :
            (pc[p] = "send" /\ pc'[p] # "send" /\ chan = "open") =>
                /\ Len(entries) < Capacity
                /\ entries' = Append(entries, EntryOf(p))
                /\ enqueued' = Append(enqueued, EntryOf(p))]_vars

\* C9 witness: the buffer is full and both producers wait at the send.
C9_Witness ==
    /\ Len(entries) = Capacity
    /\ \A p \in Producers : pc[p] = "send"

\* C10: a Panic/Panicf call never returns normally; the panic it raises
\* carries the entry's message; its Error entry has been enqueued, before
\* the panic statement is reached, exactly when the writer is not nil.
C10_PanicAlwaysRaises ==
    /\ [][\A p \in Producers :
            call[p].kind = "Panic" => (call'[p] = call[p] /\ pc'[p] # "idle")]_vars
    /\ [](\A p \in Producers :
            (call[p].kind = "Panic" /\ SubmissionDone(p)) =>
                /\ pc[p] = "panicked" => panicMsg[p] = MessageOf(p)
                /\ CountIn(enqueued, p, calls[p]) = IF writer # Nil THEN 1 ELSE 0
                /\ \A i \in 1..Len(enqueued) :
                      (enqueued[i].prod = p /\ enqueued[i].n = calls[p]) =>
                          enqueued[i].level = LevelError)

\* C10 witness: a Panic call on a logger with a nil writer has raised its
\* panic with the message.
C10_Witness ==
    \E p \in Producers :
        /\ call[p].kind = "Panic"
        /\ pc[p] = "panicked"
        /\ panicMsg[p] = MessageOf(p)
        /\ writer = Nil

\* C11: a Fatal/Fatalf call never returns; the process ends only by a Fatal
\* call's os.Exit, with code 1; the call reaches os.Exit with its Error entry
\* enqueued exactly when the writer is not nil; at os.Exit it waits for
\* nothing; with an admitted entry and a full open channel it cannot get to
\* os.Exit before the entry is in the channel (its only other end is the
\* runtime's panic when Shutdown has closed the channel).
C11_FatalExitsAfterEnqueue ==
    /\ [][\A p \in Producers :
            call[p].kind = "Fatal" => (call'[p] = call[p] /\ pc'[p] # "idle")]_vars
    /\ [](proc = "exited" =>
            /\ exitCode = 1
            /\ \E p \in Producers : call[p].kind = "Fatal" /\ pc[p] = "exit")
    /\ [](proc # "exited" => exitCode = -1)
    /\ [](\A p \in Producers :
            call[p].kind = "Fatal" =>
                /\ pc[p] = "exit" =>
                      CountIn(enqueued, p, calls[p]) = IF writer # Nil THEN 1 ELSE 0
                /\ (pc[p] = "exit" /\ proc = "running") => ENABLED FatalExit(p)
                /\ pc[p] = "send" =>
                      /\ ~ENABLED FatalExit(p)
                      /\ (chan = "open" /\ Len(entries) = Capacity) => ~ENABLED Send(p)
                /\ pc[p] = "panicked" => panicMsg[p] = ClosedChanPanic)
    /\ [][\A p \in Producers :
            (call[p].kind = "Fatal" /\ pc[p] = "send" /\ pc'[p] = "exit") =>
                enqueued' = Append(enqueued, EntryOf(p))]_vars

\* C11 witness: a Fatal call has ended the process with code 1 after its
\* entry filled the channel, with listen not done and Shutdown not called.
C11_Witness ==
    /\ proc = "exited"
    /\ exitCode = 1
    /\ shpc = "idle"
    /\ Len(entries) = Capacity
    /\ \E p \in Producers :
          /\ call[p].kind = "Fatal"
          /\ entries[Capacity] = EntryOf(p)

\* C12: under fair scheduling, with Shutdown called once and no submission
\* under way or started, a Shutdown call that has closed the channel
\* eventually returns, from every fill level of the channel and with a nil
\* writer.
C12_ShutdownReturns == (shpc = "waitDone") ~> (shpc = "returned")

\* C12 witness: Shutdown has returned after a full channel was drained.
C12_Witness ==
    /\ shpc = "returned"
    /\ enqAtClose = Capacity
    /\ Len(sink) = Capacity

\* C13: under fair scheduling, with no Fatal call and no Shutdown, what is
\* written is always a prefix of what was placed in the channel and, from
\* every moment on, a moment comes when all that was placed in the channel is
\* written; a producer waiting at the send eventually leaves it.
C13_EventuallyWritten ==
    /\ []IsPrefix(sink, enqueued)
    /\ []<>(sink = enqueued)
    /\ \A p \in Producers : (pc[p] = "send") ~> (pc[p] # "send")

\* C13 witness: both producers waited on a full channel and all twelve
\* entries are written, with Shutdown never called.
C13_Witness ==
    /\ shpc = "idle"
    /\ chan = "open"
    /\ Len(sink) = Capacity + MaxLoadCalls
    /\ sink = enqueued

\* C14 (as claimed): with no SetLevel under way, DebugEnabled, InfoEnabled
\* and WarnEnabled return what canLog returns for their level.
C14_EnabledEqualsCanLog ==
    [][\A level \in {LevelWarn, LevelInfo, LevelDebug} :
          (LevelEnabled(level) /\ spc = "idle") =>
              (enabledResult'.result <=> canLog(level))]_vars

\* C15 (as claimed): every step that reads or writes minLevel or writer is
\* taken by the goroutine that holds the mutex (canLog's read, SetLevel's
\* write, the read in *Enabled, Shutdown's read of writer, listen's read of
\* writer), and no *Enabled read happens while SetLevel holds the mutex for
\* its write.
C15_LockDiscipline ==
    [][/\ \A p \in Producers :
            (pc[p] = "locked" /\ pc'[p] # "locked") => mutex = p
       /\ (spc = "locked" /\ spc' = "idle") => mutex = SetterThread
       /\ (\E level \in {LevelWarn, LevelInfo, LevelDebug} : LevelEnabled(level)) =>
            (mutex = ReaderThread /\ spc # "locked")
       /\ (shpc = "closeWriter" /\ shpc' = "returned") => mutex = ShutdownThread
       /\ (lpc = "write" /\ lpc' # "write") => mutex = ListenThread]_vars

\* the text the rendered line starts with
LinePrefix(e) ==
    <<"[", e.Time, "] [", e.Filename, ":", ToString(e.Line), "] [", e.Level, "] ">>

EndsWithNewline(m) == Len(m) > 0 /\ m[Len(m)] = "\n"

\* C16: the rendered line is the prefix, then the message, then one newline
\* exactly when the message does not end with one (the empty message does
\* not); it always ends with a newline and is at most one character longer
\* than prefix and message.
C16_NewlineExactlyWhenNeeded ==
    renderOut # <<>> =>
        LET m == renderIn.Message
        IN  /\ renderOut = LinePrefix(renderIn) \o m \o
                    (IF EndsWithNewline(m) THEN <<>> ELSE <<"\n">>)
            /\ renderOut[Len(renderOut)] = "\n"
            /\ Len(renderOut) = Len(LinePrefix(renderIn)) + Len(m) +
                    (IF EndsWithNewline(m) THEN 0 ELSE 1)

\* C16 witness: a message that already ends with a newline has been rendered.
C16_Witness ==
    /\ renderIn.Message = <<"a", "\n">>
    /\ renderOut # <<>>

\* 0, or the position of the last '/' of f
LastSlash(f) ==
    LET at == {i \in 1..Len(f) : f[i] = "/"}
    IN  IF at = {} THEN 0 ELSE CHOOSE i \in at : \A j \in at : j <= i

\* C18 (as claimed): for a resolved caller, callerInfo returns the text after
\* the last '/' of the path, which holds no '/', and the caller's line; for
\* an unresolved caller it returns "???.go" and line 0.
C18_CallerInfoBasename ==
    callerOut # NoCallerInfo =>
        IF callerIn.ok
        THEN /\ callerOut.file =
                    SubSeq(callerIn.file, LastSlash(callerIn.file) + 1,
                           Len(callerIn.file))
             /\ \A i \in 1..Len(callerOut.file) : callerOut.file[i] # "/"
             /\ callerOut.line = callerIn.line
        ELSE callerOut = [file |-> <<"?", "?", "?", ".", "g", "o">>, line |-> 0]

\* C17: listen turns to the done signal only when the channel is closed and
\* every entry placed in it is written; the signal is one rendezvous with
\* Shutdown, after which listen has exited for good; from the moment it turns
\* to the signal nothing more is written; and the sink is closed only by a
\* step of Shutdown after listen has exited, never by a step of listen.
C17_ListenSignalsOnceAfterDrain ==
    /\ [][(lpc # "signal" /\ lpc' = "signal") =>
            /\ lpc = "recv"
            /\ chan = "closed"
            /\ entries = <<>>
            /\ cur = NoEntry
            /\ sink = enqueued]_vars
    /\ [][(lpc = "signal" /\ lpc' # "signal") =>
            /\ lpc' = "exited"
            /\ shpc = "waitDone"
            /\ shpc' = "closeWriter"
            /\ sink = enqueued]_vars
    /\ [][lpc = "exited" => lpc' = "exited"]_vars
    /\ [][(lpc = "signal" \/ lpc = "exited") => sink' = sink]_vars
    /\ [][sinkClosed' # sinkClosed =>
            /\ lpc = "exited"
            /\ lpc' = "exited"
            /\ shpc = "closeWriter"
            /\ UNCHANGED <<cur, entries, sink>>]_vars

\* C17 witness: listen has signalled and exited after writing more entries
\* than the channel holds at once, and Shutdown has not yet closed the sink.
C17_Witness ==
    /\ lpc = "exited"
    /\ shpc = "closeWriter"
    /\ ~sinkClosed
    /\ Len(sink) > Capacity

\* C19: the mutex is held only by a producer inside canLog or by the SetLevel
\* caller between Lock and Unlock; no producer at the channel send (or past
\* it) holds it, and Shutdown and listen never do; whoever holds it can take
\* its next step, which releases it, whatever the channel holds and whoever
\* waits; so the mutex is free again after the holder's one step.
C19_MutexNotHeldWhileBlocked ==
    /\ [](mutex \in Producers \cup {SetterThread, NoThread})
    /\ [](\A p \in Producers : (mutex = p) <=> (pc[p] = "locked"))
    /\ []((mutex = SetterThread) <=> (spc = "locked"))
    /\ [](proc = "running" =>
            /\ \A p \in Producers : mutex = p => ENABLED CanLogReturn(p)
            /\ mutex = SetterThread => ENABLED SetLevelWrite)
    /\ [][\A p \in Producers :
            (pc[p] = "locked" /\ pc'[p] # "locked") => mutex' = NoThread]_vars
    /\ [][(spc = "locked" /\ spc' # "locked") => mutex' = NoThread]_vars

\* C19 witness: the channel is full, one producer waits at the send, and the
\* other producer has been through canLog and a SetLevel call has written
\* minLevel meanwhile.
C19_Witness ==
    /\ Len(entries) = Capacity
    /\ lpc = "recv"
    /\ sink = <<>>
    /\ pc["p1"] = "send"
    /\ pc["p2"] = "idle"
    /\ calls["p2"] = 1
    /\ setResult = "set"
    /\ mutex = NoThread

\* a closed channel stays closed and takes no entry (listen only drains it);
\* a closed sink stays closed and is not written, listen having exited; the
\* step of Shutdown that calls Close finds the sink not yet closed
ClosedStaysClosed ==
    /\ chan = "closed" =>
          /\ chan' = "closed"
          /\ enqueued' = enqueued
          /\ Len(entries') <= Len(entries)
    /\ sinkClosed =>
          /\ sinkClosed'
          /\ sink' = sink
          /\ lpc = "exited"
    /\ (shpc = "closeWriter" /\ shpc' # "closeWriter" /\ writer # Nil) =>
          (~sinkClosed /\ sinkClosed')

\* a send on the closed channel and a second Shutdown end in the runtime's
\* panic and change neither channel nor sink
MisusePanics ==
    /\ \A p \in Producers :
          (chan = "closed" /\ pc[p] = "send" /\ pc'[p] # "send") =>
              /\ pc'[p] = "panicked"
              /\ panicMsg'[p] = ClosedChanPanic
              /\ UNCHANGED <<chan, entries, enqueued, sink, sinkClosed>>
    /\ (shpc = "returned" /\ shpc' # "returned") =>
          /\ shpc' = "panicked"
          /\ UNCHANGED <<chan, entries, enqueued, sink, sinkClosed>>

\* C20 (as claimed): ClosedStaysClosed, MisusePanics, and every submission
\* whose admission check runs after Shutdown has returned goes on to the
\* send on the closed channel, where it panics.
C20_EveryMisusePanics ==
    [][/\ ClosedStaysClosed
       /\ MisusePanics
       /\ \A p \in Producers :
            (shpc = "returned" /\ pc[p] = "locked" /\ pc'[p] # "locked") =>
                pc'[p] = "send"]_vars

\* C20 (amended): ClosedStaysClosed, MisusePanics, and a submission whose
\* admission check runs once the channel is closed goes on to the send (and
\* so to the panic) exactly when canLog admits it; otherwise it ends as it
\* would on an open channel, with nothing enqueued.
C20_AdmittedMisusePanics ==
    [][/\ ClosedStaysClosed
       /\ MisusePanics
       /\ \A p \in Producers :
            (chan = "closed" /\ pc[p] = "locked" /\ pc'[p] # "locked") =>
                /\ pc'[p] = IF canLog(call[p].level)
                            THEN "send" ELSE AfterSubmit(call[p].kind)
                /\ UNCHANGED <<chan, entries, enqueued, sink, sinkClosed>>]_vars

\* C20 witness: a producer admitted before Shutdown closed the channel has
\* panicked at its send, Shutdown has returned with the sink closed, and a
\* second Shutdown has panicked.
C20_Witness ==
    /\ shpc = "panicked"
    /\ sinkClosed
    /\ \E p \in Producers : panicMsg[p] = ClosedChanPanic
    /\ enqueued = <<>>
    /\ sink = <<>>

====
